---- MODULE Spec2Model ----
(***************************************************************************)
(* plug: correlation of the socket table with the process table           *)
(* (src/src/main.rs, main), the two interactive prompts and the Manager's  *)
(* action methods (handle_selected, handle_event, kill_process_by_pid,     *)
(* kill_process_by_port).                                                  *)
(*                                                                         *)
(* Positions stored in by_port / by_process are the code's 0-based usize   *)
(* offsets; port_infos is a TLA+ sequence, so the entry at offset p is     *)
(* port_infos[p + 1].                                                      *)
(***************************************************************************)
EXTENDS Naturals, Sequences, FiniteSets

VARIABLES
    pc,            \* position of the single thread of control
    socket_info,   \* result of netstat2::get_sockets_info
    system_info,   \* Manager.system_info: the process table the handle holds
    port_infos,    \* Manager.port_infos
    by_port,       \* Manager.by_port    : port -> offsets into port_infos
    by_process,    \* Manager.by_process : pid  -> offsets into port_infos
    i,             \* main's counter i
    si,            \* outer loop: index of the socket being visited
    pj,            \* inner loop: index of the associated pid being visited
    picked,        \* Option<PortInfo> returned by the first prompt
    event,         \* Choices value handed to handle_event, "None" before
    cancelled,     \* which prompt returned Err: "no", "entry", "action"
    lookup,        \* handle_event's system_info.process(..): "unset", "hit", "miss"
    bulk_port,     \* argument of kill_process_by_port, <<>> while not called
    kills,         \* Process::kill() calls issued, in order, with their result
    out            \* lines printed to stdout

vars == <<pc, socket_info, system_info, port_infos, by_port, by_process, i, si, pj,
          picked, event, cancelled, lookup, bulk_port, kills, out>>

manager == <<port_infos, by_port, by_process>>

----------------------------------------------------------------------------
(* Bounds and input domains *)

MaxSockets == 2
MaxAssocPids == 2

Ports == {53, 8080}
Pids == {200, 201}
Names == {"dnsd", "webapp"}
TcpStates == {"Listen", "Established"}

SeqsUpTo(S, n) == UNION {[1..k -> S] : k \in 0..n}

ProtocolSocketInfos == {[kind |-> "Udp"]} \cup [kind : {"Tcp"}, state : TcpStates]

SocketInfos ==
    [local_port : Ports,
     associated_pids : SeqsUpTo(Pids, MaxAssocPids),
     protocol_socket_info : ProtocolSocketInfos]

SocketTables == SeqsUpTo(SocketInfos, MaxSockets)

ProcessTables == UNION {[S -> Names] : S \in SUBSET Pids}

EmptyMap == [k \in {} |-> <<>>]

----------------------------------------------------------------------------
(* Pure helpers of the correlation loop *)

\* system_info.process(pid) / proc.get(&pid): does the handle's table hold pid
ProcessLookup(table, pid) == pid \in DOMAIN table

\* tcp.state.to_string()
TcpStateToString(state) ==
    CASE state = "Listen" -> "LISTEN"
      [] state = "Established" -> "ESTABLISHED"

\* the (protocol, state) match and the PortInfo literal
MakePortInfoStateForAll(socket, assoc_pid, process_name) ==
    LET psi == socket.protocol_socket_info
    IN  [port_number |-> socket.local_port,
         pid |-> assoc_pid,
         process_name |-> process_name,
         protocol |-> IF psi.kind = "Tcp" THEN "TCP" ELSE "UDP",
         port_status |-> IF psi.kind = "Tcp" THEN "LISTEN" ELSE "N/A"]

MakePortInfo(socket, assoc_pid, process_name) ==
    LET psi == socket.protocol_socket_info
    IN  [port_number |-> socket.local_port,
         pid |-> assoc_pid,
         process_name |-> process_name,
         protocol |-> IF psi.kind = "Tcp" THEN "TCP" ELSE "UDP",
         port_status |-> IF psi.kind = "Tcp" THEN TcpStateToString(psi.state) ELSE "N/A"]

\* manager.port_infos.push(port_info)
PushEntryDedup(infos, entry) ==
    IF \E k \in 1..Len(infos) : infos[k] = entry THEN infos ELSE Append(infos, entry)

PushEntry(infos, entry) == Append(infos, entry)

\* match index.get_mut(&key) { Some(v) => v.push(pos), None => insert(key, vec![pos]) }
IndexPushOneBased(index, key, pos) ==
    [k \in DOMAIN index \cup {key} |->
        IF k = key
        THEN (IF key \in DOMAIN index THEN Append(index[key], pos + 1) ELSE <<pos + 1>>)
        ELSE index[k]]

IndexPushOverwrite(index, key, pos) ==
    [k \in DOMAIN index \cup {key} |-> IF k = key THEN <<pos>> ELSE index[k]]

IndexPush(index, key, pos) ==
    [k \in DOMAIN index \cup {key} |->
        IF k = key
        THEN (IF key \in DOMAIN index THEN Append(index[key], pos) ELSE <<pos>>)
        ELSE index[k]]

----------------------------------------------------------------------------
(* main: enumeration and the correlation loop *)

Init ==
    /\ pc = "get_sockets"
    /\ socket_info = <<>>
    /\ system_info = EmptyMap
    /\ port_infos = <<>>
    /\ by_port = EmptyMap
    /\ by_process = EmptyMap
    /\ i = 0
    /\ si = 1
    /\ pj = 1
    /\ picked = <<>>
    /\ event = "None"
    /\ cancelled = "no"
    /\ lookup = "unset"
    /\ bulk_port = <<>>
    /\ kills = <<>>
    /\ out = <<>>

\* get_sockets_info returned Ok(table)
GetSocketsInfoOk ==
    /\ pc = "get_sockets"
    /\ \E table \in SocketTables : socket_info' = table
    /\ pc' = "refresh"
    /\ UNCHANGED <<system_info, port_infos, by_port, by_process, i, si, pj, picked,
                   event, cancelled, lookup, bulk_port, kills, out>>

\* get_sockets_info returned Err: panic!
GetSocketsInfoErr ==
    /\ pc = "get_sockets"
    /\ pc' = "panicked"
    /\ UNCHANGED <<socket_info, system_info, port_infos, by_port, by_process, i, si, pj,
                   picked, event, cancelled, lookup, bulk_port, kills, out>>

\* manager.system_info.refresh_all(): the handle takes the table the OS reports
RefreshAll ==
    /\ pc = "refresh"
    /\ \E table \in ProcessTables : system_info' = table
    /\ pc' = "correlate"
    /\ UNCHANGED <<socket_info, port_infos, by_port, by_process, i, si, pj, picked,
                   event, cancelled, lookup, bulk_port, kills, out>>

\* one iteration of the inner loop over socket.associated_pids
CorrelatePair ==
    /\ pc = "correlate"
    /\ si <= Len(socket_info)
    /\ pj <= Len(socket_info[si].associated_pids)
    /\ LET socket == socket_info[si]
           assoc_pid == socket.associated_pids[pj]
       IN  IF ProcessLookup(system_info, assoc_pid)
           THEN /\ port_infos' = PushEntry(port_infos,
                                     MakePortInfo(socket, assoc_pid, system_info[assoc_pid]))
                /\ by_process' = IndexPush(by_process, assoc_pid, i)
                /\ by_port' = IndexPush(by_port, socket.local_port, i)
                /\ i' = i + 1
           ELSE UNCHANGED <<port_infos, by_process, by_port, i>>
    /\ pj' = pj + 1
    /\ UNCHANGED <<pc, socket_info, system_info, si, picked, event, cancelled, lookup,
                   bulk_port, kills, out>>

\* the inner loop is exhausted: the outer loop takes the next socket
NextSocket ==
    /\ pc = "correlate"
    /\ si <= Len(socket_info)
    /\ pj > Len(socket_info[si].associated_pids)
    /\ si' = si + 1
    /\ pj' = 1
    /\ UNCHANGED <<pc, socket_info, system_info, port_infos, by_port, by_process, i,
                   picked, event, cancelled, lookup, bulk_port, kills, out>>

\* the outer loop is exhausted: main goes on to the first prompt
EndCorrelate ==
    /\ pc = "correlate"
    /\ si > Len(socket_info)
    /\ pc' = "select"
    /\ UNCHANGED <<socket_info, system_info, port_infos, by_port, by_process, i, si, pj,
                   picked, event, cancelled, lookup, bulk_port, kills, out>>

----------------------------------------------------------------------------
(* Manager: the action methods *)

\* the five println! of kill_process_by_pid (run time and disk usage are
\* values read from the process, kept as the line that prints them)
KillByPidOutput(pid, name) ==
    << [msg |-> "found process to kill:"],
       [msg |-> "process: {name}", name |-> name],
       [msg |-> "process pid: {pid}", pid |-> pid],
       [msg |-> "process runtime: {run_time}"],
       [msg |-> "process disk usage: {disk_usage}"] >>

\* handle_event, Choices::Kill arm: kill_process_by_pid(..); println!("kill: ..")
\* `success` is the bool kill_process_by_pid returns
KillArmOutput(table, pk, success) ==
    KillByPidOutput(pk.pid, table[pk.pid])
        \o << [msg |-> "kill: {name}", name |-> pk.process_name] >>

\* handle_event, Choices::ViewDetails arm: println!(name); picked.display_specs(process)
ViewDetailsOutput(pk) ==
    << [msg |-> "{name}", name |-> pk.process_name],
       [msg |-> "in display specs!"],
       [msg |-> "Port number: {port}", port |-> pk.port_number],
       [msg |-> "Port status: {status}", status |-> pk.port_status],
       [msg |-> "Memory Usage: {memory} bytes"],
       [msg |-> "CPU Usage: {cpu}%"],
       [msg |-> "Run time: {run_time}"],
       [msg |-> "Start time: {start_time} UTC"],
       [msg |-> "Command: {cmd}"] >>

\* what the Select prompt of handle_selected can return
Selections == [ok : {TRUE}, choice : {"Kill", "ViewDetails"}] \cup {[ok |-> FALSE]}

\* match selection { Ok(choice) => handle_event(choice, ..), Err(_) => println!(..) }
DispatchedKillOnErr(selection) == IF selection.ok THEN selection.choice ELSE "Kill"

Dispatched(selection) == IF selection.ok THEN selection.choice ELSE "None"

\* main's first prompt over manager.port_infos.clone()
PromptEntry ==
    /\ pc = "select"
    /\ \/ \E k \in 1..Len(port_infos) :
             /\ picked' = <<port_infos[k]>>
             /\ pc' = "handle_selected"
             /\ UNCHANGED <<cancelled, out>>
       \/ /\ cancelled' = "entry"
          /\ out' = Append(out, [msg |-> "there was an error, please try again"])
          /\ pc' = "done"
          /\ UNCHANGED picked
    /\ UNCHANGED <<socket_info, system_info, port_infos, by_port, by_process, i, si, pj,
                   event, lookup, bulk_port, kills>>

\* handle_event(event, picked), with the bool that Process::kill() returns
HandleEventKillOnMiss(ev, pk, success) ==
    /\ event' = ev
    /\ IF ~ProcessLookup(system_info, pk.pid)
       THEN /\ lookup' = "miss"
            /\ IF ev = "Kill"
               THEN kills' = Append(kills, [pid |-> pk.pid, success |-> success])
               ELSE UNCHANGED kills
            /\ UNCHANGED out
       ELSE /\ lookup' = "hit"
            /\ IF ev = "Kill"
               THEN /\ kills' = Append(kills, [pid |-> pk.pid, success |-> success])
                    /\ out' = out \o KillArmOutput(system_info, pk, success)
               ELSE /\ out' = out \o ViewDetailsOutput(pk)
                    /\ UNCHANGED kills

HandleEvent(ev, pk, success) ==
    /\ event' = ev
    /\ IF ~ProcessLookup(system_info, pk.pid)
       THEN /\ lookup' = "miss"
            /\ UNCHANGED <<kills, out>>
       ELSE /\ lookup' = "hit"
            /\ IF ev = "Kill"
               THEN /\ kills' = Append(kills, [pid |-> pk.pid, success |-> success])
                    /\ out' = out \o KillArmOutput(system_info, pk, success)
               ELSE /\ out' = out \o ViewDetailsOutput(pk)
                    /\ UNCHANGED kills

\* handle_selected(picked): the action menu, then handle_event
HandleSelected ==
    /\ pc = "handle_selected"
    /\ \E selection \in Selections, success \in BOOLEAN :
          LET ev == Dispatched(selection)
          IN  /\ cancelled' = IF selection.ok THEN cancelled ELSE "action"
              /\ IF ev = "None"
                 THEN /\ out' = Append(out, [msg |-> "there was an error picking a choice"])
                      /\ UNCHANGED <<event, lookup, kills>>
                 ELSE HandleEvent(ev, picked[1], success)
    /\ pc' = "done"
    /\ UNCHANGED <<socket_info, system_info, port_infos, by_port, by_process, i, si, pj,
                   picked, bulk_port>>

----------------------------------------------------------------------------
(* Manager::kill_process_by_port *)

\* match self.by_port.get(&port) { Some(list) => list, None => return }
BucketOfOrAll(index, port) ==
    IF port \in DOMAIN index
    THEN [found |-> TRUE, list |-> index[port]]
    ELSE [found |-> TRUE, list |-> [k \in 1..i |-> k - 1]]

BucketOf(index, port) ==
    IF port \in DOMAIN index
    THEN [found |-> TRUE, list |-> index[port]]
    ELSE [found |-> FALSE, list |-> <<>>]

\* the HashSet filled from the bucket
UniquePids(infos, list) == {infos[list[k] + 1].pid : k \in 1..Len(list)}

\* `for pid in unique_pids`: a HashSet yields each element once, in no fixed order
IterationOrdersPerEntry(infos, list) == {[k \in 1..Len(list) |-> infos[list[k] + 1].pid]}

IterationOrders(infos, list) ==
    LET U == UniquePids(infos, list)
    IN  {o \in [1..Cardinality(U) -> U] :
            \A a, b \in 1..Cardinality(U) : a # b => o[a] # o[b]}

\* the loop over unique_pids from its k-th element on: what it kills and prints.
\* results[k] is the bool kill_process_by_pid returns in iteration k
RECURSIVE KillLoop(_, _, _, _)
KillLoop(table, order, results, k) ==
    IF k > Len(order)
    THEN [kills |-> <<>>, out |-> <<>>]
    ELSE IF ~ProcessLookup(table, order[k])
    THEN [kills |-> <<>>, out |-> <<>>]
    ELSE LET rest == KillLoop(table, order, results, k + 1)
             pid == order[k]
         IN  [kills |-> <<[pid |-> pid, success |-> results[k]]>> \o rest.kills,
              out |-> KillByPidOutput(pid, table[pid])
                        \o (IF ~results[k]
                            THEN <<[msg |-> "failed to send kill message for pid: {pid}",
                                    pid |-> pid]>>
                            ELSE <<>>)
                        \o rest.out]

\* kill_process_by_port(port) on the Manager main built
KillProcessByPort ==
    /\ pc = "select"
    /\ \E port \in Ports :
          /\ bulk_port' = <<port>>
          /\ LET bucket == BucketOf(by_port, port)
             IN  IF ~bucket.found
                 THEN UNCHANGED <<kills, out>>
                 ELSE \E order \in IterationOrders(port_infos, bucket.list) :
                      \E results \in [1..Len(order) -> BOOLEAN] :
                         LET run == KillLoop(system_info, order, results, 1)
                         IN  /\ kills' = kills \o run.kills
                             /\ out' = out \o run.out
    /\ pc' = "done"
    /\ UNCHANGED <<socket_info, system_info, port_infos, by_port, by_process, i, si, pj,
                   picked, event, cancelled, lookup>>

\* system_info.refresh_all() called again on the Manager before one of its
\* methods runs: the handle's table is then the OS's table of that moment
RefreshBeforeAction ==
    /\ pc = "select"
    /\ \E table \in ProcessTables \ {system_info} : system_info' = table
    /\ UNCHANGED <<pc, socket_info, port_infos, by_port, by_process, i, si, pj, picked,
                   event, cancelled, lookup, bulk_port, kills, out>>

----------------------------------------------------------------------------
(* Specifications *)

\* main as written
Next ==
    \/ GetSocketsInfoOk
    \/ GetSocketsInfoErr
    \/ RefreshAll
    \/ CorrelatePair
    \/ NextSocket
    \/ EndCorrelate
    \/ PromptEntry
    \/ HandleSelected

Spec == Init /\ [][Next]_vars

\* the Manager main built, acted on through either of its two entry points
\* (handle_selected after the first prompt, or kill_process_by_port), with
\* the handle possibly refreshed in between.  Both methods take self by
\* value, so at most one of them runs on a Manager.
NextMethods ==
    \/ Next
    \/ RefreshBeforeAction
    \/ KillProcessByPort

SpecMethods == Init /\ [][NextMethods]_vars

----------------------------------------------------------------------------
(* Vocabulary of the properties *)

\* the correlation loop has run to its end
LoopFinished == pc \in {"select", "handle_selected", "done"}

\* the entry at the 0-based offset p
Entry(p) == port_infos[p + 1]

Offsets == {p \in 0..Len(port_infos) : p < Len(port_infos)}

\* the (socket index, pid index) pairs of the socket table whose pid is in the
\* process table, and the place of such a pair among them in source order
ResolvablePairs ==
    UNION { {<<s, j>> : j \in {n \in 1..Len(socket_info[s].associated_pids) :
                                 socket_info[s].associated_pids[n] \in DOMAIN system_info}} :
            s \in 1..Len(socket_info) }

AllPairs ==
    UNION { {<<s, j>> : j \in 1..Len(socket_info[s].associated_pids)} :
            s \in 1..Len(socket_info) }

Rank(sj) ==
    Cardinality({r \in ResolvablePairs :
                    r[1] < sj[1] \/ (r[1] = sj[1] /\ r[2] <= sj[2])})

\* where offset p is stored in an index: the (key, place) pairs holding it
Holders(index, p) ==
    UNION { {<<key, k>> : k \in {n \in 1..Len(index[key]) : index[key][n] = p}} :
            key \in DOMAIN index }

StrictlyIncreasing(list) ==
    \A a, b \in 1..Len(list) : a < b => list[a] < list[b]

KillCount(pid) == Cardinality({k \in 1..Len(kills) : kills[k].pid = pid})

\* kill_process_by_port has returned
BulkDone == pc = "done" /\ bulk_port # <<>>

\* the pids owning the port kill_process_by_port was called with
OwningPids ==
    IF bulk_port # <<>> /\ bulk_port[1] \in DOMAIN by_port
    THEN UniquePids(port_infos, by_port[bulk_port[1]])
    ELSE {}

\* the port kill_process_by_port was called with has two or more entries, all of one pid
SharedPidPort ==
    /\ bulk_port # <<>>
    /\ bulk_port[1] \in DOMAIN by_port
    /\ Len(by_port[bulk_port[1]]) >= 2
    /\ Cardinality(OwningPids) = 1

----------------------------------------------------------------------------
(* Properties *)

\* C1: after the correlation loop, every position in the by_port bucket of
\* port X is a valid offset into port_infos whose entry has port_number X,
\* and every position in the by_process bucket of pid P is a valid offset
\* whose entry has pid P.
C1_IndexPositionsValid ==
    LoopFinished =>
        /\ \A port \in DOMAIN by_port : \A k \in 1..Len(by_port[port]) :
              /\ by_port[port][k] \in Offsets
              /\ Entry(by_port[port][k]).port_number = port
        /\ \A pid \in DOMAIN by_process : \A k \in 1..Len(by_process[pid]) :
              /\ by_process[pid][k] \in Offsets
              /\ Entry(by_process[pid][k]).pid = pid

C1_Witness ==
    /\ LoopFinished
    /\ Cardinality(DOMAIN by_port) = 2
    /\ \E port \in DOMAIN by_port : Len(by_port[port]) >= 2
    /\ \E pid \in DOMAIN by_process : Len(by_process[pid]) >= 2

\* C2: after the correlation loop, port_infos holds one entry per (socket,
\* pid) pair whose pid resolves in the process table, in source order: its
\* length is the number of resolvable pairs and the n-th entry carries the
\* port and pid of the n-th resolvable pair; unresolvable pairs leave no entry.
C2_EntriesAreResolvablePairs ==
    LoopFinished =>
        /\ Len(port_infos) = Cardinality(ResolvablePairs)
        /\ \A sj \in ResolvablePairs :
              /\ Rank(sj) \in 1..Len(port_infos)
              /\ port_infos[Rank(sj)].port_number = socket_info[sj[1]].local_port
              /\ port_infos[Rank(sj)].pid = socket_info[sj[1]].associated_pids[sj[2]]

C2_Witness ==
    /\ LoopFinished
    /\ Len(port_infos) >= 2
    /\ AllPairs \ ResolvablePairs # {}
    /\ \E a, b \in ResolvablePairs :
          a[1] # b[1] /\ socket_info[a[1]] = socket_info[b[1]] /\ a[2] = b[2]

\* C3: an entry built from a UDP socket has protocol UDP and port_status
\* "N/A"; an entry built from a TCP socket has protocol TCP and port_status
\* equal to the string of the state that socket reports.
C3_ProtocolAndStatus ==
    LoopFinished =>
        \A sj \in ResolvablePairs :
            LET psi == socket_info[sj[1]].protocol_socket_info
                entry == port_infos[Rank(sj)]
            IN  IF psi.kind = "Udp"
                THEN entry.protocol = "UDP" /\ entry.port_status = "N/A"
                ELSE entry.protocol = "TCP"
                     /\ entry.port_status = TcpStateToString(psi.state)

C3_Witness ==
    /\ LoopFinished
    /\ \E k \in 1..Len(port_infos) :
          port_infos[k].protocol = "UDP" /\ port_infos[k].port_status = "N/A"
    /\ \E k \in 1..Len(port_infos) :
          port_infos[k].protocol = "TCP" /\ port_infos[k].port_status = "ESTABLISHED"

\* C10: after the correlation loop, every offset of port_infos is stored
\* exactly once in by_port, in the bucket of its entry's port_number, and
\* exactly once in by_process, in the bucket of its entry's pid; every bucket
\* is non-empty and strictly increasing.
C10_IndexesPartitionOffsets ==
    LoopFinished =>
        /\ \A p \in Offsets :
              /\ Cardinality(Holders(by_port, p)) = 1
              /\ \A h \in Holders(by_port, p) : h[1] = Entry(p).port_number
              /\ Cardinality(Holders(by_process, p)) = 1
              /\ \A h \in Holders(by_process, p) : h[1] = Entry(p).pid
        /\ \A port \in DOMAIN by_port :
              by_port[port] # <<>> /\ StrictlyIncreasing(by_port[port])
        /\ \A pid \in DOMAIN by_process :
              by_process[pid] # <<>> /\ StrictlyIncreasing(by_process[pid])

C10_Witness ==
    /\ LoopFinished
    /\ Len(port_infos) >= 3
    /\ \E port \in DOMAIN by_port : Len(by_port[port]) >= 2
    /\ \E pid \in DOMAIN by_process : by_process[pid] = <<0, 2>>

\* C4 (as claimed): when kill_process_by_port has returned for a port of
\* by_port, every owning pid of the port that resolves in the process source
\* has had a termination request, whatever happened to the pids before it.
C4_AllResolvingPidsAttempted ==
    BulkDone =>
        \A pid \in OwningPids : pid \in DOMAIN system_info => KillCount(pid) >= 1

\* C5 (as claimed): kill_process_by_port on a port with two or more entries,
\* all of one pid, issues exactly one termination request for that pid, and
\* never more than one per pid.
C5_ExactlyOneForSharedPid ==
    BulkDone =>
        /\ \A pid \in Pids : KillCount(pid) <= 1
        /\ SharedPidPort => \A pid \in OwningPids : KillCount(pid) = 1

\* C5 (amended): kill_process_by_port issues at most one termination request
\* per pid, and only for owning pids of the port; on a port with two or more
\* entries, all of one pid, it issues exactly one request for that pid when
\* the pid resolves in the process source and none when it does not.
C5_OnePerResolvingPid ==
    BulkDone =>
        /\ \A pid \in Pids :
              /\ KillCount(pid) <= 1
              /\ KillCount(pid) = 1 => pid \in OwningPids
        /\ SharedPidPort =>
              \A pid \in OwningPids :
                 KillCount(pid) = IF pid \in DOMAIN system_info THEN 1 ELSE 0

C5_Witness ==
    /\ BulkDone
    /\ SharedPidPort
    /\ \A pid \in OwningPids : KillCount(pid) = 1

\* C6: kill_process_by_port called with a port that is no key of by_port
\* issues no termination request, prints nothing, returns normally and leaves
\* port_infos, by_port and by_process as they were.
C6_AbsentPortNoOp ==
    [][ (bulk_port = <<>> /\ bulk_port' # <<>> /\ bulk_port'[1] \notin DOMAIN by_port)
          => /\ kills' = kills
             /\ out' = out
             /\ manager' = manager
             /\ pc' = "done" ]_vars

C6_Witness ==
    /\ BulkDone
    /\ bulk_port[1] \notin DOMAIN by_port
    /\ \E k \in 1..Len(port_infos) : port_infos[k].pid \in DOMAIN system_info
    /\ kills = <<>>

\* C7: a cancelled prompt (either one) ends the session with no action
\* dispatched and no termination request; a termination request exists only
\* after an entry was picked and then Kill was picked.
C7_CancelDispatchesNothing ==
    /\ cancelled # "no" => pc = "done" /\ kills = <<>> /\ event = "None"
    /\ cancelled = "entry" => picked = <<>>
    /\ event # "None" => picked # <<>>
    /\ kills # <<>> => picked # <<>> /\ event = "Kill" /\ cancelled = "no"

C7_Witness ==
    /\ pc = "done"
    /\ cancelled = "action"
    /\ picked # <<>>
    /\ picked[1].pid \in DOMAIN system_info

\* C8 (as claimed): after the single-entry Kill, what was printed when the
\* termination call returned false differs from what is printed when it
\* returns true.
C8_FailureReported ==
    (pc = "done" /\ event = "Kill" /\ lookup = "hit" /\ ~kills[1].success)
        => out # KillArmOutput(system_info, picked[1], TRUE)

\* C9: handle_event looks the picked entry's pid up in the process source at
\* action time; on a miss it neither kills nor shows details and returns
\* normally; the interactive path issues at most one termination request, and
\* only for the picked entry's pid.
C9_HandleEventOnceOnPickedPid ==
    picked # <<>> =>
        /\ Len(kills) <= 1
        /\ \A k \in 1..Len(kills) : kills[k].pid = picked[1].pid
        /\ (pc = "done" /\ event # "None") =>
              /\ lookup = (IF picked[1].pid \in DOMAIN system_info THEN "hit" ELSE "miss")
              /\ lookup = "miss" => kills = <<>> /\ out = <<>>

C9_Witness ==
    /\ pc = "done"
    /\ event = "Kill"
    /\ lookup = "miss"
    /\ picked # <<>>

====
